---- MODULE Spec2Model ----
(***************************************************************************)
(* Bachelor House Meal Manager (src/script.js): the record store, the      *)
(* month filter, the settlement engine and the handlers that change the    *)
(* store, as a state machine.                                              *)
(*                                                                         *)
(* Representation.                                                         *)
(*   - A string that the code only compares is a TLA+ string.              *)
(*   - A date string 'YYYY-MM-DD' is the tuple <<y, m, d>>, a month string *)
(*     'YYYY-MM' is <<y, m>>, the empty string is <<>>.                    *)
(*   - A value typed into the meal input is a tuple of characters.         *)
(*   - A Date object is [valid, t]: t counts minutes since the epoch, UTC. *)
(*   - A number that the engine divides is an exact fraction <<n, d>>,     *)
(*     d > 0, in lowest terms; amounts and meal counts are integers.       *)
(***************************************************************************)
EXTENDS Integers, Sequences, FiniteSets, TLC

\* ------------------------------------------------------------------ bounds

\* Records created in one run (Date.now() stamps handed out after the stored ones).
MaxCreate == 2
\* Requests to the remote store that may be in flight together.
MaxInflight == 2
\* Requests sent to the remote store in one run.
MaxSent == 2
\* PDF reports generated one after the other.
MaxReports == 2

\* The limit of records the submit handlers enforce.
RecordLimit == 999

\* ------------------------------------------------------------- input sets

\* UTC offsets of the browser's time zone, in minutes (Dhaka, New York).
TimeZones == {360, -300}
\* The day the page is opened (local calendar date, at noon).
Today == <<2024, 3, 15>>
\* Days at a month's end on which the page may be opened as well.
MonthEndDays == {<<2024, 3, 29>>, <<2024, 3, 31>>}
\* What a date input can hold: a date, or nothing.
DateInputs == {<<2024, 3, 1>>, <<>>}
\* What the meal date picker can hold.
MealDateInputs == {<<2024, 3, 1>>, <<2024, 3, 15>>}
\* What the dashboard month filter can hold.
MonthInputs == {<<2024, 2>>, <<2024, 3>>}
\* The months the cursor is followed through (year * 12 + month index).
CursorMonths == {2024 * 12 + 1, 2024 * 12 + 2}
\* Texts typed into a meal input: '30', '20.5', '0', '-5', 'ab'.
MealInputs ==
    {<<"3", "0">>, <<"2", "0", ".", "5">>, <<"0">>, <<"-", "5">>, <<"a", "b">>}
BillAmounts == {500}
PaymentAmounts == {700}
MemberNames == {<<"A", "l", "i">>}
MemberPhones == {<<>>}
\* What is typed into the search box.
SearchInputs == {<<>>, <<"b", "o">>, <<"x">>}
BillTitles == {"Rent"}
BillTypes == {"rent"}
SplitTypes == {"equal"}
\* The split types and participants a bill record can carry (renderBills shows
\* 'equal', 'custom' and any other value as weight-based).
SplitTypeValues == {"equal", "custom", "weight"}
ParticipantsValues == {"all", "some"}
PaymentMethods == {"cash"}
PaymentNotes == {""}
JoinDates == {<<2024, 3, 15>>}

\* What an earlier session may have left in the store (LocalStorage.load(), or the
\* remote store's first notification): nothing, or two members and a bill, with or
\* without a meal entry of the first member.
StoredMember(stamp) ==
    [type |-> "member", id |-> stamp, name |-> <<"A", "l", "i">>, phone |-> <<>>,
     join_date |-> <<2024, 3, 15>>, backendId |-> stamp]
StoredBill(stamp) ==
    [type |-> "bill", id |-> stamp, title |-> "Rent", bill_type |-> "rent",
     amount |-> 1000, date |-> <<2024, 3, 1>>, split_type |-> "equal",
     participants |-> "all", backendId |-> stamp]
StoredMeal(stamp, memberId) ==
    [type |-> "meal_entry", id |-> <<stamp, memberId>>, member_id |-> memberId,
     meal_date |-> <<2024, 3, 15>>, meal_count |-> 30, backendId |-> stamp]
StoredData ==
    {<<>>,
     <<StoredMember(1), StoredMember(2), StoredBill(3)>>,
     <<StoredMember(1), StoredMember(2), StoredBill(3), StoredMeal(4, 1)>>}
\* Date.now() when the page is opened: the latest stamp an earlier session used.
StartClock ==
    CHOOSE n \in 0..8 : /\ \E data \in StoredData : Len(data) = n
                        /\ \A data \in StoredData : Len(data) <= n

\* ------------------------------------------------------------ JS numbers

\* NaN, which is equal to nothing, itself included.
NaN == -1000000
StrictEq(a, b) == a # NaN /\ b # NaN /\ a = b

Abs(x) == IF x < 0 THEN -x ELSE x

RECURSIVE GCD(_, _)
GCD(a, b) == IF b = 0 THEN a ELSE GCD(b, a % b)

\* The fraction n/d (d # 0) in lowest terms with a positive denominator.
Frac(n, d) ==
    LET g == GCD(Abs(n), Abs(d))
        s == IF d < 0 THEN -1 ELSE 1
    IN  <<(s * n) \div g, (s * d) \div g>>
\* The integer x, or NaN, as a fraction; NaN is the fraction <<NaN, 1>>.
Num(x) == <<x, 1>>
IsNaN(p) == p[1] = NaN
\* An operation on NaN gives NaN.
Add(p, q) ==
    IF IsNaN(p) \/ IsNaN(q) THEN Num(NaN)
    ELSE Frac(p[1] * q[2] + q[1] * p[2], p[2] * q[2])
Sub(p, q) ==
    IF IsNaN(p) \/ IsNaN(q) THEN Num(NaN)
    ELSE Frac(p[1] * q[2] - q[1] * p[2], p[2] * q[2])
Mul(p, q) ==
    IF IsNaN(p) \/ IsNaN(q) THEN Num(NaN)
    ELSE Frac(p[1] * q[1], p[2] * q[2])
\* p / q for q # 0 (the code divides only after testing the divisor).
Div(p, q) ==
    IF IsNaN(p) \/ IsNaN(q) THEN Num(NaN)
    ELSE Frac(p[1] * q[2], p[2] * q[1])
\* p < q: false when either is NaN.
Less(p, q) == ~IsNaN(p) /\ ~IsNaN(q) /\ p[1] * q[2] < q[1] * p[2]
\* Math.max(p, q): NaN when either is NaN.
MathMax(p, q) ==
    IF IsNaN(p) \/ IsNaN(q) THEN Num(NaN)
    ELSE IF Less(p, q) THEN q ELSE p

\* undefined, the value of a property an object does not have.
Undefined == -2000000
\* a + b on integers, NaN and undefined (undefined converts to NaN).
Plus(a, b) == IF a \in {NaN, Undefined} \/ b \in {NaN, Undefined} THEN NaN ELSE a + b

\* array.reduce((sum, x) => sum + x, 0) over a sequence of integers.
RECURSIVE Sum(_)
Sum(s) == IF s = <<>> THEN 0 ELSE Plus(Sum(SubSeq(s, 1, Len(s) - 1)), s[Len(s)])

\* The same over a sequence of fractions.
RECURSIVE SumNum(_)
SumNum(s) == IF s = <<>> THEN Num(0) ELSE Add(SumNum(SubSeq(s, 1, Len(s) - 1)), s[Len(s)])

\* The amount of each bill or payment, the meal_count of each meal entry: what
\* a reduce callback adds to its sum.
Amounts(s) ==
    [i \in 1..Len(s) |-> IF "amount" \in DOMAIN s[i] THEN s[i].amount ELSE Undefined]
MealCounts(s) ==
    [i \in 1..Len(s) |-> IF "meal_count" \in DOMAIN s[i] THEN s[i].meal_count ELSE Undefined]

\* parseInt(text): an optional sign, then the leading digits; NaN without any.
Digits == <<"0", "1", "2", "3", "4", "5", "6", "7", "8", "9">>
IsDigit(c) == \E i \in 1..10 : Digits[i] = c
DigitValue(c) == (CHOOSE i \in 1..10 : Digits[i] = c) - 1
RECURSIVE ParseDigits(_, _, _)
ParseDigits(s, i, acc) ==
    IF i > Len(s) \/ ~IsDigit(s[i]) THEN acc
    ELSE ParseDigits(s, i + 1, 10 * acc + DigitValue(s[i]))
parseInt(s) ==
    LET neg   == Len(s) > 0 /\ s[1] = "-"
        start == IF Len(s) > 0 /\ s[1] \in {"-", "+"} THEN 2 ELSE 1
    IN  IF start > Len(s) \/ ~IsDigit(s[start]) THEN NaN
        ELSE IF neg THEN -ParseDigits(s, start, 0) ELSE ParseDigits(s, start, 0)

\* ------------------------------------------------------------- JS dates

MinutesPerDay == 24 * 60

\* Days from 1970-01-01 to the civil date y-m-d (d may run past the month's end).
DaysFromCivil(y, m, d) ==
    LET yy  == IF m <= 2 THEN y - 1 ELSE y
        era == yy \div 400
        yoe == yy - era * 400
        mp  == IF m > 2 THEN m - 3 ELSE m + 9
        doy == (153 * mp + 2) \div 5 + d - 1
        doe == yoe * 365 + yoe \div 4 - yoe \div 100 + doy
    IN  era * 146097 + doe - 719468

\* The one element of a set of one element.
TheOne(S) == CHOOSE x \in S : TRUE

\* The civil date <<y, m, d>> of a day number. (The steps of the computation are
\* operators of their own, each binding its result as a variable, x \in {e}, so
\* that it is computed once.)
CivilFromMp(era, yoe, doy, mp) ==
    TheOne({<<yoe + era * 400 + (IF m <= 2 THEN 1 ELSE 0),
              m,
              doy - (153 * mp + 2) \div 5 + 1>> :
              m \in {IF mp < 10 THEN mp + 3 ELSE mp - 9}})
CivilFromYoe(era, doe, yoe) ==
    TheOne({CivilFromMp(era, yoe, doy, (5 * doy + 2) \div 153) :
              doy \in {doe - (365 * yoe + yoe \div 4 - yoe \div 100)}})
CivilFromEra(zz, era) ==
    TheOne({CivilFromYoe(era, doe,
                         (doe - doe \div 1460 + doe \div 36524 - doe \div 146096) \div 365) :
              doe \in {zz - era * 146097}})
CivilFromDays(z) ==
    TheOne({CivilFromEra(zz, zz \div 146097) : zz \in {z + 719468}})

InvalidDate == [valid |-> FALSE, t |-> 0]

\* new Date('YYYY-MM-DD'): midnight UTC of that day; Invalid Date for any other text.
NewDate(s) ==
    IF Len(s) = 3
    THEN [valid |-> TRUE, t |-> DaysFromCivil(s[1], s[2], s[3]) * MinutesPerDay]
    ELSE InvalidDate

\* The local calendar date of a Date in a zone that is `zone` minutes ahead of UTC.
LocalCivil(date, zone) == CivilFromDays((date.t + zone) \div MinutesPerDay)
getFullYear(date, zone) == IF date.valid THEN LocalCivil(date, zone)[1] ELSE NaN
getMonth(date, zone) == IF date.valid THEN LocalCivil(date, zone)[2] - 1 ELSE NaN

\* date.setMonth(mon): the local month becomes mon (any integer), the day of the
\* month and the time of day stay, and a day past the month's end runs over.
setMonth(date, mon, zone) ==
    LET c   == LocalCivil(date, zone)
        tod == (date.t + zone) % MinutesPerDay
        y   == c[1] + (mon \div 12)
        m   == (mon % 12) + 1
    IN  [valid |-> TRUE,
         t |-> (DaysFromCivil(y, m, 1) + c[3] - 1) * MinutesPerDay + tod - zone]

\* date.toISOString().split('T')[0]: the UTC calendar date as 'YYYY-MM-DD'.
toISODate(date) == CivilFromDays(date.t \div MinutesPerDay)

\* ------------------------------------------------------------------ state

VARIABLES
    tz,               \* the browser's UTC offset in minutes (fixed for a run)
    useLocalStorage,  \* TRUE: browser storage; FALSE: window.dataSdk
    quotaExceeded,    \* localStorage.setItem throws (fixed for a run)
    sdkDown,          \* window.dataSdk's requests report isOk = false (fixed for a run)
    stored,           \* the collection the localStorage item holds
    result,           \* what the latest createRecord/deleteRecord call returned
                      \* (a set of at most one result; empty before any call)
    allData,          \* every record held in memory
    members,          \* the records of allData of type member
    bills,            \* ... of type bill
    payments,         \* ... of type payment
    mealEntries,      \* ... of type meal_entry
    filterMonth,      \* the dashboard month filter: Null, '' or 'YYYY-MM'
    currentDate,      \* the month cursor, a Date
    selectedMealDate, \* the day the meal grid edits, 'YYYY-MM-DD'
    clock,            \* Date.now(): identifiers handed out so far
    remoteData,       \* the records the remote store holds
    inflight,         \* requests sent to the remote store, not yet applied
    sent,             \* how many requests were sent to the remote store
    reports,          \* the PDF reports generated since the last handler that
                      \* changes the store, the filter, the cursor or the meal date
    searchQuery,      \* the text of the global search box
    views             \* what the page shows: the rows last written by the render
                      \* functions (followed only where views.followed)

vars == <<tz, useLocalStorage, quotaExceeded, sdkDown, stored, result, allData, members, bills, payments, mealEntries,
          filterMonth, currentDate, selectedMealDate, clock, remoteData, inflight, sent,
          reports, searchQuery, views>>

\* null (the filter before any month is chosen, and after "clear").
Null == <<0>>
\* JS truthiness of a string or null.
Truthy(v) == v # Null /\ v # <<>>

\* ------------------------------------------------------------ time filter

\* A filter test that lets a record through when its date cannot be read.
InFilterMonth_KeepUndated(dateString, zone, fm) ==
    LET d == NewDate(dateString)
    IN  \/ ~d.valid
        \/ /\ StrictEq(getFullYear(d, zone), fm[1])
           /\ StrictEq(getMonth(d, zone), fm[2] - 1)

\* getFilteredData's test of one date string against 'YYYY-MM'.
InFilterMonth(dateString, zone, fm) ==
    LET year  == fm[1]
        month == fm[2]
        d     == NewDate(dateString)
    IN  StrictEq(getFullYear(d, zone), year) /\ StrictEq(getMonth(d, zone), month - 1)

BillInFilter(b) == InFilterMonth(b.date, tz, filterMonth)
PaymentInFilter(p) == InFilterMonth(p.date, tz, filterMonth)
MealInFilter(m) == InFilterMonth(m.meal_date, tz, filterMonth)

getFilteredData ==
    IF Truthy(filterMonth)
    THEN [filteredBills       |-> SelectSeq(bills, BillInFilter),
          filteredPayments    |-> SelectSeq(payments, PaymentInFilter),
          filteredMealEntries |-> SelectSeq(mealEntries, MealInFilter)]
    ELSE [filteredBills       |-> bills,
          filteredPayments    |-> payments,
          filteredMealEntries |-> mealEntries]

\* ------------------------------------------------------- settlement engine

\* new Member(data, usedBills, usedPayments, usedMealEntries)
Member(data, usedBills, usedPayments, usedMealEntries) ==
    [id          |-> data.id,
     name        |-> data.name,
     phone       |-> data.phone,
     join_date   |-> data.join_date,
     backendId   |-> data.backendId,
     bills       |-> usedBills,
     payments    |-> usedPayments,
     mealEntries |-> usedMealEntries]

\* new Member(data): the three collections default to the global ones.
NewMember(data) == Member(data, bills, payments, mealEntries)

\* members.map(m => new Member(m))
MemberObjects(ms) == [i \in 1..Len(ms) |-> NewMember(ms[i])]

getMealCountForDate(self, date) ==
    LET found == SelectSeq(self.mealEntries,
                           LAMBDA m : m.member_id = self.id /\ m.meal_date = date)
    IN  IF Len(found) > 0 THEN MealCounts(found)[1] ELSE 0

getMonthlyMealTotal(self) ==
    LET year  == getFullYear(currentDate, tz)
        month == getMonth(currentDate, tz)
        mine  == SelectSeq(self.mealEntries,
                   LAMBDA m :
                     /\ m.member_id = self.id
                     /\ LET mealDate == NewDate(m.meal_date)
                        IN  /\ StrictEq(getFullYear(mealDate, tz), year)
                            /\ StrictEq(getMonth(mealDate, tz), month))
    IN  Sum(MealCounts(mine))

\* getTotalPaid without the member test: every payment of the collection.
getTotalPaid_AllPayments(self) ==
    Sum(Amounts(self.payments))

getTotalPaid(self) ==
    LET memberPayments == SelectSeq(self.payments, LAMBDA p : p.member_id = self.id)
    IN  Sum(Amounts(memberPayments))

\* getTotalBills() and getTotalDue() read the global `members`; it is the
\* parameter allMembers of the operators below, and every caller passes `members`.

\* Total meals taken over the meal entries of the cursor's month, whoever they
\* belong to, instead of over the members.
TotalMealsOf_AllEntries(self, allMembers) ==
    LET year    == getFullYear(currentDate, tz)
        month   == getMonth(currentDate, tz)
        inMonth == SelectSeq(self.mealEntries,
                     LAMBDA m :
                       LET mealDate == NewDate(m.meal_date)
                       IN  /\ StrictEq(getFullYear(mealDate, tz), year)
                           /\ StrictEq(getMonth(mealDate, tz), month))
    IN  Sum(MealCounts(inMonth))

\* getTotalBills(): the total of getMonthlyMealTotal over the members, each on
\* self's collections.
TotalMealsOf(self, allMembers) ==
    Sum([i \in 1..Len(allMembers) |->
           LET memberObj == Member(allMembers[i], self.bills, self.payments, self.mealEntries)
           IN  getMonthlyMealTotal(memberObj)])

\* getTotalBills with the meals of the selected day in place of the month's.
getTotalBills_SelectedDay(self, allMembers) ==
    LET totalBillAmount == Sum(Amounts(self.bills))
        totalMeals      == TotalMealsOf(self, allMembers)
    IN  IF totalMeals = 0 THEN Num(0)
        ELSE Mul(Div(Num(totalBillAmount), Num(totalMeals)),
                 Num(getMealCountForDate(self, selectedMealDate)))

\* getTotalBills that splits the bills equally when nobody has eaten.
getTotalBills_EqualWhenNoMeals(self, allMembers) ==
    LET totalBillAmount == Sum(Amounts(self.bills))
        totalMeals      == TotalMealsOf(self, allMembers)
    IN  IF totalMeals = 0 THEN Div(Num(totalBillAmount), Num(Len(allMembers)))
        ELSE Mul(Div(Num(totalBillAmount), Num(totalMeals)),
                 Num(getMonthlyMealTotal(self)))

\* getTotalBills that splits the bills equally, whatever each member has eaten.
getTotalBills_EqualSplit(self, allMembers) ==
    LET totalBillAmount == Sum(Amounts(self.bills))
        totalMeals      == TotalMealsOf(self, allMembers)
    IN  IF totalMeals = 0 THEN Num(0)
        ELSE Div(Num(totalBillAmount), Num(Len(allMembers)))

\* getTotalBills that shares by meals only the bills whose split_type is 'equal'.
getTotalBills_EqualBillsOnly(self, allMembers) ==
    LET totalBillAmount == Sum(Amounts(SelectSeq(self.bills,
                                                 LAMBDA b : b.split_type = "equal")))
        totalMeals      == TotalMealsOf(self, allMembers)
    IN  IF totalMeals = 0 THEN Num(0)
        ELSE LET mealRate == Div(Num(totalBillAmount), Num(totalMeals))
             IN  Mul(mealRate, Num(getMonthlyMealTotal(self)))

getTotalBills(self, allMembers) ==
    LET totalBillAmount == Sum(Amounts(self.bills))
        totalMeals      == TotalMealsOf(self, allMembers)
    IN  IF totalMeals = 0 THEN Num(0)
        ELSE LET mealRate == Div(Num(totalBillAmount), Num(totalMeals))
             IN  Mul(mealRate, Num(getMonthlyMealTotal(self)))

\* getTotalDue without the floor at 0.
getTotalDue_NoFloor(self, allMembers) ==
    Sub(getTotalBills(self, allMembers), Num(getTotalPaid(self)))

getTotalDue(self, allMembers) ==
    MathMax(Num(0), Sub(getTotalBills(self, allMembers), Num(getTotalPaid(self))))

\* class BachelorHouseMealManager
totalExpense == Sum(Amounts(bills))

totalDeposits ==
    LET memberObjects == MemberObjects(members)
    IN  Sum([i \in 1..Len(memberObjects) |-> getTotalPaid(memberObjects[i])])

\* totalDue(): the reduce over memberObjects, which are built from allMembers.
SumOfDues(memberObjects, allMembers) ==
    SumNum([i \in 1..Len(memberObjects) |-> getTotalDue(memberObjects[i], allMembers)])

\* totalDue that returns the largest due of a member instead of their sum.
totalDue_LargestDue ==
    LET memberObjects == MemberObjects(members)
        dues == {getTotalDue(memberObjects[i], members) : i \in 1..Len(memberObjects)}
    IN  IF dues = {} THEN Num(0) ELSE CHOOSE d \in dues : \A e \in dues : ~Less(d, e)

totalDue ==
    LET memberObjects == MemberObjects(members)
    IN  SumOfDues(memberObjects, members)

\* A report row whose total_due is the share, payments not taken off.
SettlementRow_DueIsShare(m) ==
    LET memberObj == NewMember(m)
    IN  [name          |-> m.name,
         join_date     |-> m.join_date,
         total_paid    |-> getTotalPaid(memberObj),
         total_bills   |-> getTotalBills(memberObj, members),
         total_due     |-> getTotalBills(memberObj, members),
         monthly_meals |-> getMonthlyMealTotal(memberObj)]

SettlementRow(m) ==
    LET memberObj == NewMember(m)
    IN  [name          |-> m.name,
         join_date     |-> m.join_date,
         total_paid    |-> getTotalPaid(memberObj),
         total_bills   |-> getTotalBills(memberObj, members),
         total_due     |-> getTotalDue(memberObj, members),
         monthly_meals |-> getMonthlyMealTotal(memberObj)]

settlementReport == [i \in 1..Len(members) |-> SettlementRow(members[i])]

\* renderSettlement and generatePDFReport: a row's advance payment.
advancePayment(row) == Sub(Num(row.total_paid), row.total_bills)

\* generatePDFReport: the total meals and the meal rate it prints.
reportTotalMeals ==
    Sum([i \in 1..Len(members) |-> getMonthlyMealTotal(NewMember(members[i]))])
reportMealRate ==
    IF reportTotalMeals > 0
    THEN Div(Num(totalExpense), Num(reportTotalMeals))
    ELSE Num(0)

\* renderMembersTable: the member objects of the dashboard table, on the filtered
\* collections (the search box is empty: every member is displayed).
dashboardMemberObjects ==
    LET f == getFilteredData
    IN  [i \in 1..Len(members) |->
           Member(members[i], f.filteredBills, f.filteredPayments, f.filteredMealEntries)]

OfType(data, t) == SelectSeq(data, LAMBDA d : d.type = t)

\* ------------------------------------------------------------ the page

\* String.prototype.toLowerCase on a string held as its characters.
UpperCase == <<"A", "B", "C", "D", "E", "F", "G", "H", "I", "J", "K", "L", "M",
               "N", "O", "P", "Q", "R", "S", "T", "U", "V", "W", "X", "Y", "Z">>
LowerCase == <<"a", "b", "c", "d", "e", "f", "g", "h", "i", "j", "k", "l", "m",
               "n", "o", "p", "q", "r", "s", "t", "u", "v", "w", "x", "y", "z">>
toLowerCase(s) ==
    [i \in 1..Len(s) |->
       IF \E k \in 1..26 : UpperCase[k] = s[i]
       THEN LowerCase[CHOOSE k \in 1..26 : UpperCase[k] = s[i]]
       ELSE s[i]]

\* JS truthiness of a string held as its characters.
TruthyString(s) == s # <<>>

\* String.prototype.includes
includes(s, q) ==
    \E i \in 0..(Len(s) - Len(q)) : SubSeq(s, i + 1, i + Len(q)) = q

\* getFilteredMembers(), on the member list ms and the search text sq.
getFilteredMembers(ms, sq) ==
    IF ~TruthyString(sq) THEN ms
    ELSE LET query == toLowerCase(sq)
         IN  SelectSeq(ms, LAMBDA m :
                 \/ includes(toLowerCase(m.name), query)
                 \/ (TruthyString(m.phone) /\ includes(m.phone, query)))

\* getFilteredData(), on the collections bs, ps, es and the filter fm.
getFilteredDataOf(bs, ps, es, fm) ==
    IF Truthy(fm)
    THEN [filteredBills       |-> SelectSeq(bs, LAMBDA b : InFilterMonth(b.date, tz, fm)),
          filteredPayments    |-> SelectSeq(ps, LAMBDA p : InFilterMonth(p.date, tz, fm)),
          filteredMealEntries |-> SelectSeq(es, LAMBDA m : InFilterMonth(m.meal_date, tz, fm))]
    ELSE [filteredBills       |-> bs,
          filteredPayments    |-> ps,
          filteredMealEntries |-> es]

\* The render functions write rows into the page. A row is held with the values
\* its cells are formatted from. Each function is given the collections it reads
\* (ms, bs, ps, es: members, bills, payments, mealEntries), the filter fm, the
\* search text sq and the meal date; the month cursor is read where the engine
\* reads it.

\* A row of the members table for the member object memberObj and the record
\* `member` (the values are held as computed, before toFixed and toLocaleString);
\* `object` is not a cell: it records whose figures the row's four figures are.
MembersTableRow(memberObj, member, ms) ==
    [name         |-> member.name,
     phone        |-> IF TruthyString(member.phone) THEN member.phone
                      ELSE <<"N", "/", "A">>,
     deleteMember |-> member.backendId,
     object       |-> memberObj.id,
     monthlyMeals |-> getMonthlyMealTotal(memberObj),
     totalPaid    |-> getTotalPaid(memberObj),
     totalBills   |-> getTotalBills(memberObj, ms),
     totalDue     |-> getTotalDue(memberObj, ms)]

\* renderMembersTable(): one row per member object; the object comes from
\* displayMembers[index], the name, phone and delete button from members[index].
\* (Here and below the member object is bound as a variable, so that it is
\* built once.)
renderMembersTable(ms, bs, ps, es, fm, sq) ==
    TheOne({[index \in 1..Len(displayMembers) |->
               TheOne({MembersTableRow(memberObj, ms[index], ms) :
                         memberObj \in {Member(displayMembers[index], f.filteredBills,
                                               f.filteredPayments,
                                               f.filteredMealEntries)}})] :
              f \in {getFilteredDataOf(bs, ps, es, fm)},
              displayMembers \in {getFilteredMembers(ms, sq)}})

\* renderMembersList(): one card per member, on the unfiltered collections.
renderMembersList(ms, bs, ps, es) ==
    [index \in 1..Len(ms) |->
       TheOne({[name         |-> ms[index].name,
                monthlyMeals |-> getMonthlyMealTotal(memberObj),
                totalPaid    |-> getTotalPaid(memberObj),
                totalBills   |-> getTotalBills(memberObj, ms),
                totalDue     |-> getTotalDue(memberObj, ms)] :
                 memberObj \in {Member(ms[index], bs, ps, es)}})]

\* renderMealsGrid(): one card per member, for the day mealDate.
renderMealsGrid(ms, bs, ps, es, mealDate) ==
    [index \in 1..Len(ms) |->
       TheOne({[name         |-> ms[index].name,
                mealCount    |-> getMealCountForDate(memberObj, mealDate),
                monthlyTotal |-> getMonthlyMealTotal(memberObj)] :
                 memberObj \in {Member(ms[index], bs, ps, es)}})]

\* renderSettlement(): one row per row of settlementReport().
renderSettlement(ms, bs, ps, es) ==
    [index \in 1..Len(ms) |->
       TheOne({[name          |-> ms[index].name,
                monthly_meals |-> getMonthlyMealTotal(memberObj),
                total_paid    |-> getTotalPaid(memberObj),
                total_bills   |-> getTotalBills(memberObj, ms),
                total_due     |-> getTotalDue(memberObj, ms)] :
                 memberObj \in {Member(ms[index], bs, ps, es)}})]

\* The page is not followed: views keeps this value.
NotFollowed == [followed |-> FALSE]

\* What updateAllViews() leaves on the page.
RenderAll(ms, bs, ps, es, fm, sq, mealDate) ==
    [followed     |-> TRUE,
     membersTable |-> renderMembersTable(ms, bs, ps, es, fm, sq),
     membersList  |-> renderMembersList(ms, bs, ps, es),
     mealsGrid    |-> renderMealsGrid(ms, bs, ps, es, mealDate),
     settlement   |-> renderSettlement(ms, bs, ps, es)]

\* The render calls of updateAllViews(), on the collections it has just taken.
RenderViews(ms, bs, ps, es, fm) ==
    views' = IF views.followed
             THEN RenderAll(ms, bs, ps, es, fm, searchQuery, selectedMealDate)
             ELSE views

\* ------------------------------------------------------------ the handlers

\* updateAllViews that leaves the member list as it was.
updateAllViews_StaleMembers(data, fm) ==
    \E bs \in {OfType(data, "bill")}, ps \in {OfType(data, "payment")},
       es \in {OfType(data, "meal_entry")} :
        /\ members' = members
        /\ bills' = bs
        /\ payments' = ps
        /\ mealEntries' = es
        /\ RenderViews(members, bs, ps, es, fm)

\* updateAllViews(): the derived collections are taken anew from `data` (the value
\* allData has when it runs) and every render function writes the page; fm is the
\* value filterMonth has when it runs. (Each collection is bound as a variable,
\* \E x \in {e}, so that it is computed once.)
updateAllViews(data, fm) ==
    \E ms \in {OfType(data, "member")}, bs \in {OfType(data, "bill")},
       ps \in {OfType(data, "payment")}, es \in {OfType(data, "meal_entry")} :
        /\ members' = ms
        /\ bills' = bs
        /\ payments' = ps
        /\ mealEntries' = es
        /\ RenderViews(ms, bs, ps, es, fm)

\* mealEntries.find(m => m.member_id === memberId && m.meal_date === date): the
\* index of the first such entry, 0 when there is none.
FindMeal(entries, memberId, date) ==
    LET hits == {i \in 1..Len(entries) :
                   entries[i].member_id = memberId /\ entries[i].meal_date = date}
    IN  IF hits = {} THEN 0 ELSE CHOOSE i \in hits : \A j \in hits : i <= j

\* LocalStorage.save(data): the value it returns, and what it leaves in the
\* localStorage item (setItem throws when the quota is exceeded).
LocalStorageSaveReturns == ~quotaExceeded
LocalStorageSave(data) == stored' = IF quotaExceeded THEN stored ELSE data

\* createRecord(record); `stamp` is what Date.now() returns during the call.
createRecord(record, stamp) ==
    IF useLocalStorage
    THEN /\ allData' = Append(allData, [record EXCEPT !.backendId = stamp])
         /\ LocalStorageSave(allData')
         /\ updateAllViews(allData', filterMonth)
         /\ result' = {[isOk |-> TRUE]}
         /\ UNCHANGED <<remoteData, inflight, sent>>
    ELSE IF sdkDown
    THEN /\ result' = {[isOk |-> FALSE]}
         /\ UNCHANGED <<views, allData, members, bills, payments, mealEntries, remoteData, stored,
                        inflight, sent>>
    ELSE /\ Cardinality(inflight) < MaxInflight /\ sent < MaxSent
         /\ inflight' = inflight \cup {[op |-> "create", rec |-> record, key |-> stamp]}
         /\ sent' = sent + 1
         /\ result' = {[isOk |-> TRUE]}
         /\ UNCHANGED <<views, allData, members, bills, payments, mealEntries, remoteData, stored>>

\* deleteRecord that takes the records referring to `record` out with it.
deleteRecord_Cascading(record) ==
    IF useLocalStorage
    THEN /\ allData' = SelectSeq(allData,
                          LAMBDA d : /\ d.backendId # record.backendId
                                     /\ ~("member_id" \in DOMAIN d /\ d.member_id = record.id))
         /\ LocalStorageSave(allData')
         /\ updateAllViews(allData', filterMonth)
         /\ result' = {[isOk |-> TRUE]}
         /\ UNCHANGED <<remoteData, inflight, sent>>
    ELSE IF sdkDown
    THEN /\ result' = {[isOk |-> FALSE]}
         /\ UNCHANGED <<views, allData, members, bills, payments, mealEntries, remoteData, stored,
                        inflight, sent>>
    ELSE /\ Cardinality(inflight) < MaxInflight /\ sent < MaxSent
         /\ inflight' = inflight \cup {[op |-> "delete", rec |-> record, key |-> record.backendId]}
         /\ sent' = sent + 1
         /\ result' = {[isOk |-> TRUE]}
         /\ UNCHANGED <<views, allData, members, bills, payments, mealEntries, remoteData, stored>>

\* deleteRecord(record)
deleteRecord(record) ==
    IF useLocalStorage
    THEN /\ allData' = SelectSeq(allData, LAMBDA d : d.backendId # record.backendId)
         /\ LocalStorageSave(allData')
         /\ updateAllViews(allData', filterMonth)
         /\ result' = {[isOk |-> TRUE]}
         /\ UNCHANGED <<remoteData, inflight, sent>>
    ELSE IF sdkDown
    THEN /\ result' = {[isOk |-> FALSE]}
         /\ UNCHANGED <<views, allData, members, bills, payments, mealEntries, remoteData, stored,
                        inflight, sent>>
    ELSE /\ Cardinality(inflight) < MaxInflight /\ sent < MaxSent
         /\ inflight' = inflight \cup {[op |-> "delete", rec |-> record, key |-> record.backendId]}
         /\ sent' = sent + 1
         /\ result' = {[isOk |-> TRUE]}
         /\ UNCHANGED <<views, allData, members, bills, payments, mealEntries, remoteData, stored>>

Init ==
    /\ tz \in TimeZones
    /\ useLocalStorage \in BOOLEAN
    /\ quotaExceeded = FALSE
    /\ sdkDown = FALSE
    /\ allData \in StoredData
    /\ stored = IF useLocalStorage THEN allData ELSE <<>>
    /\ result = {}
    /\ members = OfType(allData, "member")
    /\ bills = OfType(allData, "bill")
    /\ payments = OfType(allData, "payment")
    /\ mealEntries = OfType(allData, "meal_entry")
    /\ filterMonth = Null
    /\ currentDate = [valid |-> TRUE,
                      t |-> DaysFromCivil(Today[1], Today[2], Today[3]) * MinutesPerDay
                            + 12 * 60 - tz]
    /\ selectedMealDate = toISODate(currentDate)
    /\ clock = StartClock
    /\ remoteData = IF useLocalStorage THEN <<>> ELSE allData
    /\ inflight = {}
    /\ sent = 0
    /\ reports = <<>>
    /\ searchQuery = <<>>
    /\ views = NotFollowed

handleMemberSubmit ==
    \E name \in MemberNames, phone \in MemberPhones, joinDate \in JoinDates :
        /\ Len(allData) < RecordLimit
        /\ clock < StartClock + MaxCreate
        /\ clock' = clock + 1
        /\ createRecord([type |-> "member", id |-> clock', name |-> name, phone |-> phone,
                         join_date |-> joinDate, backendId |-> 0], clock')
        /\ reports' = <<>>
        /\ UNCHANGED <<tz, useLocalStorage, quotaExceeded, sdkDown, searchQuery, filterMonth, currentDate,
                       selectedMealDate>>

handleBillSubmit ==
    \E title \in BillTitles, billType \in BillTypes, amount \in BillAmounts,
       date \in DateInputs, splitType \in SplitTypes :
        /\ Len(allData) < RecordLimit
        /\ clock < StartClock + MaxCreate
        /\ clock' = clock + 1
        /\ createRecord([type |-> "bill", id |-> clock', title |-> title,
                         bill_type |-> billType, amount |-> amount, date |-> date,
                         split_type |-> splitType, participants |-> "all",
                         backendId |-> 0], clock')
        /\ reports' = <<>>
        /\ UNCHANGED <<tz, useLocalStorage, quotaExceeded, sdkDown, searchQuery, filterMonth, currentDate,
                       selectedMealDate>>

handlePaymentSubmit ==
    \E i \in 1..Len(members), amount \in PaymentAmounts, date \in DateInputs,
       paymentMethod \in PaymentMethods, note \in PaymentNotes :
        /\ Len(allData) < RecordLimit
        /\ clock < StartClock + MaxCreate
        /\ clock' = clock + 1
        /\ createRecord([type |-> "payment", id |-> clock', member_id |-> members[i].id,
                         amount |-> amount, date |-> date,
                         payment_method |-> paymentMethod, note |-> note,
                         backendId |-> 0], clock')
        /\ reports' = <<>>
        /\ UNCHANGED <<tz, useLocalStorage, quotaExceeded, sdkDown, searchQuery, filterMonth, currentDate,
                       selectedMealDate>>

confirmDeleteMember ==
    \E i \in 1..Len(members) :
        /\ deleteRecord(members[i])
        /\ reports' = <<>>
        /\ UNCHANGED <<tz, useLocalStorage, quotaExceeded, sdkDown, searchQuery, filterMonth, currentDate,
                       selectedMealDate, clock>>

confirmDeleteBill ==
    \E i \in 1..Len(bills) :
        /\ deleteRecord(bills[i])
        /\ reports' = <<>>
        /\ UNCHANGED <<tz, useLocalStorage, quotaExceeded, sdkDown, searchQuery, filterMonth, currentDate,
                       selectedMealDate, clock>>

confirmDeletePayment ==
    \E i \in 1..Len(payments) :
        /\ deleteRecord(payments[i])
        /\ reports' = <<>>
        /\ UNCHANGED <<tz, useLocalStorage, quotaExceeded, sdkDown, searchQuery, filterMonth, currentDate,
                       selectedMealDate, clock>>

\* parseInt(newValue) || 0
MealCountOf(newValue) ==
    LET n == parseInt(newValue) IN IF n = NaN \/ n = 0 THEN 0 ELSE n

\* if (count < 0) return;
IsNegativeCount_Never(count) == FALSE
IsNegativeCount(count) == count < 0

\* updateMealCountDirect(memberId, newValue), called from a card of the meal grid.
\* (count and existingMeal are bound as variables, \E x \in {e}, so that each is
\* computed once.)
updateMealCountDirect ==
    \E i \in 1..Len(members), newValue \in MealInputs :
    \E memberId \in {members[i].id}, count \in {MealCountOf(newValue)} :
    \E k \in {FindMeal(mealEntries, memberId, selectedMealDate)} :
        /\ reports' = <<>>
        /\ UNCHANGED <<tz, useLocalStorage, quotaExceeded, sdkDown, searchQuery, filterMonth, currentDate,
                       selectedMealDate>>
        /\ IF IsNegativeCount(count) THEN
               UNCHANGED <<views, allData, members, bills, payments, mealEntries, clock,
                           remoteData, inflight, sent, stored, result>>
           ELSE IF k # 0 THEN
               \E existingMeal \in {mealEntries[k]} :
               IF count = 0 THEN
                   /\ deleteRecord(existingMeal)
                   /\ UNCHANGED clock
               ELSE
                   \* existingMeal.meal_count = count: the object is shared by
                   \* allData and mealEntries.
                   \E changed \in {[f \in DOMAIN existingMeal \cup {"meal_count"} |->
                                      IF f = "meal_count" THEN count ELSE existingMeal[f]]} :
                   \E a \in {j \in 1..Len(allData) : allData[j] = existingMeal} :
                       /\ allData' = [allData EXCEPT ![a] = changed]
                       /\ UNCHANGED <<clock, remoteData, result>>
                       /\ IF useLocalStorage
                          THEN /\ LocalStorageSave(allData')
                               /\ updateAllViews(allData', filterMonth)
                               /\ UNCHANGED <<inflight, sent>>
                          ELSE IF sdkDown
                          THEN \* dataSdk.update reports isOk = false: nothing is
                               \* sent on, no view is updated.
                               /\ mealEntries' = [mealEntries EXCEPT ![k] = changed]
                               /\ UNCHANGED <<views, members, bills, payments, stored,
                                              inflight, sent>>
                          ELSE /\ Cardinality(inflight) < MaxInflight /\ sent < MaxSent
                               /\ sent' = sent + 1
                               /\ mealEntries' = [mealEntries EXCEPT ![k] = changed]
                               /\ inflight' = inflight \cup
                                    {[op |-> "update", rec |-> changed,
                                      key |-> changed.backendId]}
                               /\ UNCHANGED <<views, members, bills, payments, stored>>
           ELSE IF count > 0 THEN
               /\ clock < StartClock + MaxCreate
               /\ clock' = clock + 1
               /\ createRecord([type |-> "meal_entry", id |-> <<clock', memberId>>,
                                member_id |-> memberId, meal_date |-> selectedMealDate,
                                meal_count |-> count, backendId |-> 0], clock')
           ELSE
               UNCHANGED <<views, allData, members, bills, payments, mealEntries, clock,
                           remoteData, inflight, sent, stored, result>>

\* The month the cursor shows, as year * 12 + month index.
MonthIndex(date) == getFullYear(date, tz) * 12 + getMonth(date, tz)

prevMonthClick ==
    /\ currentDate' = setMonth(currentDate, getMonth(currentDate, tz) - 1, tz)
    /\ MonthIndex(currentDate') \in CursorMonths
    /\ reports' = <<>>
    /\ UNCHANGED <<tz, useLocalStorage, quotaExceeded, sdkDown, searchQuery, stored, result, allData, members,
                   bills, payments, mealEntries,
                   filterMonth, selectedMealDate, clock, remoteData, inflight, sent, views>>

nextMonthClick ==
    /\ currentDate' = setMonth(currentDate, getMonth(currentDate, tz) + 1, tz)
    /\ MonthIndex(currentDate') \in CursorMonths
    /\ reports' = <<>>
    /\ UNCHANGED <<tz, useLocalStorage, quotaExceeded, sdkDown, searchQuery, stored, result, allData, members,
                   bills, payments, mealEntries,
                   filterMonth, selectedMealDate, clock, remoteData, inflight, sent, views>>

dashboardFilterChange ==
    \E value \in MonthInputs :
        /\ filterMonth' = value
        /\ updateAllViews(allData, value)
        /\ reports' = <<>>
        /\ UNCHANGED <<tz, useLocalStorage, quotaExceeded, sdkDown, searchQuery, stored, result, allData,
                       currentDate, selectedMealDate, clock,
                       remoteData, inflight, sent>>

clearFilterClick ==
    /\ filterMonth' = Null
    /\ updateAllViews(allData, Null)
    /\ reports' = <<>>
    /\ UNCHANGED <<tz, useLocalStorage, quotaExceeded, sdkDown, searchQuery, stored, result, allData,
                       currentDate, selectedMealDate, clock,
                   remoteData, inflight, sent>>

\* The input of the global search box: searchQuery = e.target.value;
\* renderMembersTable().
globalSearchInput ==
    \E value \in SearchInputs :
        /\ searchQuery' = value
        /\ views' = IF views.followed
                    THEN [views EXCEPT !.membersTable =
                            renderMembersTable(members, bills, payments, mealEntries,
                                               filterMonth, value)]
                    ELSE views
        /\ reports' = <<>>
        /\ UNCHANGED <<tz, useLocalStorage, quotaExceeded, sdkDown, stored, result, allData,
                       members, bills, payments, mealEntries, filterMonth, currentDate,
                       selectedMealDate, clock, remoteData, inflight, sent>>

\* selectedMealDate = e.target.value; renderMealsGrid().
mealDatePickerChange ==
    \E value \in MealDateInputs :
        /\ selectedMealDate' = value
        /\ views' = IF views.followed
                    THEN [views EXCEPT !.mealsGrid =
                            renderMealsGrid(members, bills, payments, mealEntries, value)]
                    ELSE views
        /\ reports' = <<>>
        /\ UNCHANGED <<tz, useLocalStorage, quotaExceeded, sdkDown, searchQuery, stored, result, allData, members,
                   bills, payments, mealEntries,
                       filterMonth, currentDate, clock, remoteData, inflight, sent>>

\* The remote store's effect of one request on its records.
SdkApply(data, req) ==
    CASE req.op = "create" -> Append(data, [req.rec EXCEPT !.backendId = req.key])
      [] req.op = "delete" -> SelectSeq(data, LAMBDA d : d.backendId # req.key)
      [] req.op = "update" ->
            [j \in 1..Len(data) |-> IF data[j].backendId = req.key THEN req.rec ELSE data[j]]

\* The remote store applies a request in flight and delivers the change
\* notification: dataHandler.onDataChanged(data) with its full collection.
onDataChanged ==
    \E req \in inflight :
        /\ ~useLocalStorage
        /\ remoteData' = SdkApply(remoteData, req)
        /\ inflight' = inflight \ {req}
        /\ allData' = remoteData'
        /\ updateAllViews(allData', filterMonth)
        /\ reports' = <<>>
        /\ UNCHANGED <<tz, useLocalStorage, quotaExceeded, sdkDown, searchQuery, stored, result, filterMonth,
                       currentDate, selectedMealDate, clock, sent>>

Next ==
    \/ handleMemberSubmit
    \/ handleBillSubmit
    \/ handlePaymentSubmit
    \/ confirmDeleteMember
    \/ confirmDeleteBill
    \/ confirmDeletePayment
    \/ updateMealCountDirect
    \/ prevMonthClick
    \/ nextMonthClick
    \/ dashboardFilterChange
    \/ clearFilterClick
    \/ mealDatePickerChange
    \/ onDataChanged

Spec == Init /\ [][Next]_vars

\* generatePDFReport(), the click on "generate report": the figures the document
\* is built from. The handler assigns to no variable of the page.
PDFReport ==
    [report        |-> settlementReport,
     totalExpense  |-> totalExpense,
     totalDeposits |-> totalDeposits,
     totalDue      |-> totalDue,
     totalMeals    |-> reportTotalMeals,
     mealRate      |-> reportMealRate]

\* A report handler that reverses the member list in place while it reads it.
generatePDFReport_ReversingMembers ==
    /\ Len(reports) < MaxReports
    /\ reports' = Append(reports, PDFReport)
    /\ members' = [i \in 1..Len(members) |-> members[Len(members) + 1 - i]]
    /\ UNCHANGED <<tz, useLocalStorage, quotaExceeded, sdkDown, searchQuery, stored, result, allData,
                   bills, payments, mealEntries, filterMonth, currentDate,
                   selectedMealDate, clock, remoteData, inflight, sent, views>>

generatePDFReport ==
    /\ Len(reports) < MaxReports
    /\ reports' = Append(reports, PDFReport)
    /\ UNCHANGED <<tz, useLocalStorage, quotaExceeded, sdkDown, searchQuery, stored, result, allData, members,
                   bills, payments, mealEntries, filterMonth, currentDate,
                   selectedMealDate, clock, remoteData, inflight, sent, views>>

\* The page with its report button (the meal grid stays on the day the page was
\* opened).
NextReporting ==
    \/ handleMemberSubmit
    \/ handleBillSubmit
    \/ handlePaymentSubmit
    \/ confirmDeleteMember
    \/ confirmDeleteBill
    \/ confirmDeletePayment
    \/ updateMealCountDirect
    \/ prevMonthClick
    \/ nextMonthClick
    \/ dashboardFilterChange
    \/ clearFilterClick
    \/ onDataChanged
    \/ generatePDFReport

\* The page opened on the store of two members, a bill and a meal entry.
InitReporting ==
    /\ tz \in TimeZones
    /\ useLocalStorage \in BOOLEAN
    /\ quotaExceeded = FALSE
    /\ sdkDown = FALSE
    /\ allData = <<StoredMember(1), StoredMember(2), StoredBill(3), StoredMeal(4, 1)>>
    /\ stored = IF useLocalStorage THEN allData ELSE <<>>
    /\ result = {}
    /\ members = OfType(allData, "member")
    /\ bills = OfType(allData, "bill")
    /\ payments = OfType(allData, "payment")
    /\ mealEntries = OfType(allData, "meal_entry")
    /\ filterMonth = Null
    /\ currentDate = [valid |-> TRUE,
                      t |-> DaysFromCivil(Today[1], Today[2], Today[3]) * MinutesPerDay
                            + 12 * 60 - tz]
    /\ selectedMealDate = toISODate(currentDate)
    /\ clock = StartClock
    /\ remoteData = IF useLocalStorage THEN <<>> ELSE allData
    /\ inflight = {}
    /\ sent = 0
    /\ reports = <<>>
    /\ searchQuery = <<>>
    /\ views = NotFollowed

SpecReporting == InitReporting /\ [][NextReporting]_vars

\* The handlers that change what the engine reads: the store and the month
\* cursor (the dashboard filter and the meal date stay as the page opens them).
NextLedger ==
    \/ handleMemberSubmit
    \/ handleBillSubmit
    \/ handlePaymentSubmit
    \/ confirmDeleteMember
    \/ confirmDeleteBill
    \/ confirmDeletePayment
    \/ updateMealCountDirect
    \/ prevMonthClick
    \/ nextMonthClick
    \/ onDataChanged

SpecLedger == Init /\ [][NextLedger]_vars

\* A store one record short of the limit, as months of daily meal entries leave
\* it: two members and the entries of both, three meals a day, dated before the
\* months the cursor and the inputs are on.
OldMeal(i) ==
    [type |-> "meal_entry", id |-> <<-i, 1 + (i % 2)>>, member_id |-> 1 + (i % 2),
     meal_date |-> <<2022 + (i \div 672), 1 + ((i \div 56) % 12), 1 + ((i \div 2) % 28)>>,
     meal_count |-> 3, backendId |-> -i]
NearlyFullStore ==
    <<StoredMember(1), StoredMember(2)>> \o [i \in 1..(RecordLimit - 3) |-> OldMeal(i)]

InitNearlyFull ==
    /\ tz \in TimeZones
    /\ useLocalStorage \in BOOLEAN
    /\ quotaExceeded = FALSE
    /\ sdkDown = FALSE
    /\ allData = NearlyFullStore
    /\ stored = IF useLocalStorage THEN allData ELSE <<>>
    /\ result = {}
    /\ members = OfType(allData, "member")
    /\ bills = OfType(allData, "bill")
    /\ payments = OfType(allData, "payment")
    /\ mealEntries = OfType(allData, "meal_entry")
    /\ filterMonth = Null
    /\ currentDate = [valid |-> TRUE,
                      t |-> DaysFromCivil(Today[1], Today[2], Today[3]) * MinutesPerDay
                            + 12 * 60 - tz]
    /\ selectedMealDate = toISODate(currentDate)
    /\ clock = StartClock
    /\ remoteData = IF useLocalStorage THEN <<>> ELSE allData
    /\ inflight = {}
    /\ sent = 0
    /\ reports = <<>>
    /\ searchQuery = <<>>
    /\ views = NotFollowed

\* The operations that add records: the three submit handlers and the meal
\* count update, with the notifications that deliver them in remote mode.
NextAdding ==
    \/ handleMemberSubmit
    \/ handleBillSubmit
    \/ handlePaymentSubmit
    \/ updateMealCountDirect
    \/ onDataChanged

SpecNearlyFull == InitNearlyFull /\ [][NextAdding]_vars

\* The page opened while the browser's storage quota is used up: the stored
\* collection loads, every localStorage.setItem throws.
InitQuotaExceeded ==
    /\ tz \in TimeZones
    /\ useLocalStorage \in BOOLEAN
    /\ quotaExceeded = TRUE
    /\ sdkDown = FALSE
    /\ allData \in StoredData
    /\ stored = IF useLocalStorage THEN allData ELSE <<>>
    /\ result = {}
    /\ members = OfType(allData, "member")
    /\ bills = OfType(allData, "bill")
    /\ payments = OfType(allData, "payment")
    /\ mealEntries = OfType(allData, "meal_entry")
    /\ filterMonth = Null
    /\ currentDate = [valid |-> TRUE,
                      t |-> DaysFromCivil(Today[1], Today[2], Today[3]) * MinutesPerDay
                            + 12 * 60 - tz]
    /\ selectedMealDate = toISODate(currentDate)
    /\ clock = StartClock
    /\ remoteData = IF useLocalStorage THEN <<>> ELSE allData
    /\ inflight = {}
    /\ sent = 0
    /\ reports = <<>>
    /\ searchQuery = <<>>
    /\ views = NotFollowed

SpecQuotaExceeded == InitQuotaExceeded /\ [][Next]_vars

\* A store that holds a record without its number, as another client of the
\* remote store or an earlier version of the page may have written it: a bill
\* or a payment without amount, a meal entry without meal_count.
BillNoAmount(stamp) ==
    [type |-> "bill", id |-> stamp, title |-> "Rent", bill_type |-> "rent",
     date |-> <<2024, 3, 1>>, split_type |-> "equal", participants |-> "all",
     backendId |-> stamp]
PaymentNoAmount(stamp, memberId) ==
    [type |-> "payment", id |-> stamp, member_id |-> memberId, date |-> <<2024, 3, 1>>,
     payment_method |-> "cash", note |-> "", backendId |-> stamp]
MealNoCount(stamp, memberId) ==
    [type |-> "meal_entry", id |-> <<stamp, memberId>>, member_id |-> memberId,
     meal_date |-> <<2024, 3, 15>>, backendId |-> stamp]
StoredDataMissingFields ==
    {<<StoredMember(1), StoredMember(2), BillNoAmount(3), StoredMeal(4, 1)>>,
     <<StoredMember(1), StoredMember(2), StoredBill(3), MealNoCount(4, 1)>>,
     <<StoredMember(1), StoredMember(2), StoredBill(3), PaymentNoAmount(4, 1)>>}

InitMissingFields ==
    /\ tz \in TimeZones
    /\ useLocalStorage \in BOOLEAN
    /\ quotaExceeded = FALSE
    /\ sdkDown = FALSE
    /\ allData \in StoredDataMissingFields
    /\ stored = IF useLocalStorage THEN allData ELSE <<>>
    /\ result = {}
    /\ members = OfType(allData, "member")
    /\ bills = OfType(allData, "bill")
    /\ payments = OfType(allData, "payment")
    /\ mealEntries = OfType(allData, "meal_entry")
    /\ filterMonth = Null
    /\ currentDate = [valid |-> TRUE,
                      t |-> DaysFromCivil(Today[1], Today[2], Today[3]) * MinutesPerDay
                            + 12 * 60 - tz]
    /\ selectedMealDate = toISODate(currentDate)
    /\ clock = StartClock
    /\ remoteData = IF useLocalStorage THEN <<>> ELSE allData
    /\ inflight = {}
    /\ sent = 0
    /\ reports = <<>>
    /\ searchQuery = <<>>
    /\ views = NotFollowed

SpecMissingFields == InitMissingFields /\ [][Next]_vars

\* The page in remote mode, with a remote store that may report failure on
\* every request after dataSdk.init succeeded.
InitSdkDown ==
    /\ tz \in TimeZones
    /\ useLocalStorage = FALSE
    /\ quotaExceeded = FALSE
    /\ sdkDown \in BOOLEAN
    /\ allData \in StoredData
    /\ stored = <<>>
    /\ result = {}
    /\ members = OfType(allData, "member")
    /\ bills = OfType(allData, "bill")
    /\ payments = OfType(allData, "payment")
    /\ mealEntries = OfType(allData, "meal_entry")
    /\ filterMonth = Null
    /\ currentDate = [valid |-> TRUE,
                      t |-> DaysFromCivil(Today[1], Today[2], Today[3]) * MinutesPerDay
                            + 12 * 60 - tz]
    /\ selectedMealDate = toISODate(currentDate)
    /\ clock = StartClock
    /\ remoteData = allData
    /\ inflight = {}
    /\ sent = 0
    /\ reports = <<>>
    /\ searchQuery = <<>>
    /\ views = NotFollowed

SpecSdkDown == InitSdkDown /\ [][Next]_vars

\* The page opened on one of the last days of a month: currentDate is new Date()
\* of that day.
InitMonthEnd ==
    /\ tz \in TimeZones
    /\ useLocalStorage \in BOOLEAN
    /\ quotaExceeded = FALSE
    /\ sdkDown = FALSE
    /\ allData \in StoredData
    /\ stored = IF useLocalStorage THEN allData ELSE <<>>
    /\ result = {}
    /\ members = OfType(allData, "member")
    /\ bills = OfType(allData, "bill")
    /\ payments = OfType(allData, "payment")
    /\ mealEntries = OfType(allData, "meal_entry")
    /\ filterMonth = Null
    /\ \E day \in MonthEndDays :
          currentDate = [valid |-> TRUE,
                         t |-> DaysFromCivil(day[1], day[2], day[3]) * MinutesPerDay
                               + 12 * 60 - tz]
    /\ selectedMealDate = toISODate(currentDate)
    /\ clock = StartClock
    /\ remoteData = IF useLocalStorage THEN <<>> ELSE allData
    /\ inflight = {}
    /\ sent = 0
    /\ reports = <<>>
    /\ searchQuery = <<>>
    /\ views = NotFollowed

SpecMonthEnd == InitMonthEnd /\ [][NextLedger]_vars

\* The page followed with what it shows, in local mode: two members of different names, a bill
\* and the meals of the second member, as an earlier session left them; views is
\* what initializeApp's first updateAllViews() rendered.
StoredMemberBob(stamp) ==
    [type |-> "member", id |-> stamp, name |-> <<"B", "o", "b">>,
     phone |-> <<"0", "1", "7">>, join_date |-> <<2024, 3, 15>>, backendId |-> stamp]

InitViews ==
    /\ tz = 360
    /\ useLocalStorage = TRUE
    /\ quotaExceeded = FALSE
    /\ sdkDown = FALSE
    /\ allData = <<StoredMember(1), StoredMemberBob(2), StoredBill(3), StoredMeal(4, 2)>>
    /\ stored = IF useLocalStorage THEN allData ELSE <<>>
    /\ result = {}
    /\ members = OfType(allData, "member")
    /\ bills = OfType(allData, "bill")
    /\ payments = OfType(allData, "payment")
    /\ mealEntries = OfType(allData, "meal_entry")
    /\ filterMonth = Null
    /\ currentDate = [valid |-> TRUE,
                      t |-> DaysFromCivil(Today[1], Today[2], Today[3]) * MinutesPerDay
                            + 12 * 60 - tz]
    /\ selectedMealDate = toISODate(currentDate)
    /\ clock = StartClock
    /\ remoteData = IF useLocalStorage THEN <<>> ELSE allData
    /\ inflight = {}
    /\ sent = 0
    /\ reports = <<>>
    /\ searchQuery = <<>>
    /\ views = RenderAll(members, bills, payments, mealEntries, filterMonth,
                         searchQuery, selectedMealDate)

\* The handlers of the followed page: a member deleted, a meal count typed, the
\* month cursor, the dashboard filter, the search box (the meal grid stays on the
\* day the page was opened).
NextViews ==
    \/ confirmDeleteMember
    \/ updateMealCountDirect
    \/ prevMonthClick
    \/ nextMonthClick
    \/ dashboardFilterChange
    \/ clearFilterClick
    \/ globalSearchInput

SpecViews == InitViews /\ [][NextViews]_vars

\* ------------------------------------------------------------- the claims

\* The member objects the engine is run on: those of the settlement report (the
\* global collections) and those of the dashboard table (the filtered ones).
EngineContexts == {MemberObjects(members), dashboardMemberObjects}

BillAmountOf(self) == Sum(Amounts(self.bills))
SumOfShares(objs) == SumNum([i \in 1..Len(objs) |-> getTotalBills(objs[i], members)])
MemberIds == {members[i].id : i \in 1..Len(members)}

\* C1: whenever the members' monthly meal totals sum to T > 0, the shares
\* getTotalBills() of all members add up to the total amount of the bills used.
C1_SharesSumToBills ==
    \A objs \in EngineContexts :
        (Len(objs) > 0 /\ TotalMealsOf(objs[1], members) > 0)
            => SumOfShares(objs) = Num(BillAmountOf(objs[1]))

\* Two bills, two members who both ate, and both shares positive.
C1_Witness ==
    /\ Len(bills) = 2
    /\ Len(members) = 2
    /\ \A i \in 1..2 : Less(Num(0), getTotalBills(NewMember(members[i]), members))
    /\ SumOfShares(MemberObjects(members)) = Num(totalExpense)

\* C2: whenever the members' monthly meal totals sum to 0, every member's
\* getTotalBills() is 0 and the meal rate of the report is 0, whatever the bills.
C2_ZeroMealsZeroShare ==
    /\ \A objs \in EngineContexts :
          (Len(objs) > 0 /\ TotalMealsOf(objs[1], members) = 0)
              => \A i \in 1..Len(objs) : getTotalBills(objs[i], members) = Num(0)
    /\ reportTotalMeals = 0 => reportMealRate = Num(0)

\* One member, no meal entry, one bill of 500: share 0, due 0, rate 0.
C2_Witness ==
    /\ Len(members) = 1
    /\ mealEntries = <<>>
    /\ Len(bills) = 1 /\ bills[1].amount = 500
    /\ getTotalBills(NewMember(members[1]), members) = Num(0)
    /\ getTotalDue(NewMember(members[1]), members) = Num(0)
    /\ reportMealRate = Num(0)

\* C3: when T > 0, a member's share times T equals the bill total times the
\* member's own monthly meals, and the report prints the same rate:
\* row share = rate * row meals, rate * T = total expense.
C3_ShareIsRateTimesMeals ==
    /\ \A objs \in EngineContexts :
          (Len(objs) > 0 /\ TotalMealsOf(objs[1], members) > 0)
              => \A i \in 1..Len(objs) :
                    Mul(getTotalBills(objs[i], members), Num(TotalMealsOf(objs[1], members)))
                        = Num(BillAmountOf(objs[i]) * getMonthlyMealTotal(objs[i]))
    /\ reportTotalMeals > 0
          => /\ Mul(reportMealRate, Num(reportTotalMeals)) = Num(totalExpense)
             /\ \A i \in 1..Len(members) :
                    settlementReport[i].total_bills
                        = Mul(reportMealRate, Num(settlementReport[i].monthly_meals))

\* 30 and 20 meals, one bill of 1000: rate 20, shares 600 and 400.
C3_Witness ==
    /\ Len(members) = 2
    /\ Len(bills) = 1 /\ bills[1].amount = 1000
    /\ settlementReport[1].monthly_meals = 30
    /\ settlementReport[2].monthly_meals = 20
    /\ settlementReport[1].total_bills = Num(600)
    /\ settlementReport[2].total_bills = Num(400)
    /\ reportMealRate = Num(20)

\* C4: getTotalDue() is never negative: it is the share less the payments when
\* the share is the larger, and 0 otherwise.
C4_DueNeverNegative ==
    \A objs \in EngineContexts : \A i \in 1..Len(objs) :
        LET due   == getTotalDue(objs[i], members)
            share == getTotalBills(objs[i], members)
            paid  == Num(getTotalPaid(objs[i]))
        IN  /\ ~Less(due, Num(0))
            /\ Less(paid, share) => Add(due, paid) = share
            /\ ~Less(paid, share) => due = Num(0)

\* A member who paid more than a positive share, and owes nothing.
C4_Witness ==
    \E i \in 1..Len(members) :
        LET m == NewMember(members[i])
        IN  /\ Less(Num(0), getTotalBills(m, members))
            /\ Less(getTotalBills(m, members), Num(getTotalPaid(m)))
            /\ getTotalDue(m, members) = Num(0)

\* C5: a report row whose total_paid is at least its total_bills has total_due 0
\* and an advance payment that, added to total_bills, gives total_paid; no row
\* has both a due and an advance above 0.
C5_AdvanceOrDue ==
    \A i \in 1..Len(settlementReport) :
        LET row == settlementReport[i]
        IN  /\ ~Less(Num(row.total_paid), row.total_bills)
               => /\ row.total_due = Num(0)
                  /\ Add(advancePayment(row), row.total_bills) = Num(row.total_paid)
            /\ ~(Less(Num(0), row.total_due) /\ Less(Num(0), advancePayment(row)))

\* Paid 700 against a share of 500: due 0, advance 200.
C5_Witness ==
    \E i \in 1..Len(settlementReport) :
        LET row == settlementReport[i]
        IN  /\ row.total_paid = 700
            /\ row.total_bills = Num(500)
            /\ row.total_due = Num(0)
            /\ advancePayment(row) = Num(200)

\* The payments without the one at index k.
WithoutPayment(k) == [j \in 1..(Len(payments) - 1) |->
                        IF j < k THEN payments[j] ELSE payments[j + 1]]
Dangling(k) == payments[k].member_id \notin MemberIds

\* C6: a payment whose member_id matches no member is in no member's
\* getTotalPaid() and not in totalDeposits(), and every member's paid, share and
\* due are what they are without that payment in the store.
C6_DanglingPaymentNotCounted ==
    \A k \in 1..Len(payments) :
        Dangling(k) =>
            /\ \A i \in 1..Len(members) :
                  LET with    == NewMember(members[i])
                      without == Member(members[i], bills, WithoutPayment(k), mealEntries)
                  IN  /\ getTotalPaid(with) = getTotalPaid(without)
                      /\ getTotalBills(with, members) = getTotalBills(without, members)
                      /\ getTotalDue(with, members) = getTotalDue(without, members)
            /\ totalDeposits =
                  Sum([i \in 1..Len(members) |->
                         getTotalPaid(Member(members[i], bills, WithoutPayment(k), mealEntries))])

\* A payment of a deleted member beside a member who paid.
C6_Witness ==
    /\ \E k \in 1..Len(payments) : Dangling(k)
    /\ \E i \in 1..Len(members) : getTotalPaid(NewMember(members[i])) > 0
    /\ totalDeposits = 700

\* s without its element at index i.
RemoveAt(s, i) == [j \in 1..(Len(s) - 1) |-> IF j < i THEN s[j] ELSE s[j + 1]]

\* The step in which member i leaves the members and nothing else the engine
\* reads changes.
MemberDeleted(i) ==
    /\ members' = RemoveAt(members, i)
    /\ bills' = bills
    /\ payments' = payments
    /\ mealEntries' = mealEntries
    /\ currentDate' = currentDate
    /\ tz' = tz

\* What the claim says of such a step. Before it: T the total meals, deletedMeals
\* those of the member who left, stay(j) a member who stayed. After it: the
\* engine on the next state's members (the other collections, the cursor and the
\* zone being the same, NewMember(members'[j]) is the next state's member object).
MemberDeletedEffect(i) ==
    LET gone         == NewMember(members[i])
        T            == TotalMealsOf(gone, members)
        deletedMeals == getMonthlyMealTotal(gone)
        stay(j)      == NewMember(RemoveAt(members, i)[j])
        newShare(j)  == IF T - deletedMeals = 0 THEN Num(0)
                        ELSE Div(Num(totalExpense * getMonthlyMealTotal(stay(j))),
                                 Num(T - deletedMeals))
        newDue(j)    == MathMax(Num(0), Sub(newShare(j), Num(getTotalPaid(stay(j)))))
    IN  /\ totalDeposits' = totalDeposits - getTotalPaid(gone)
        /\ SumOfDues(MemberObjects(members'), members')
              = SumNum([j \in 1..(Len(members) - 1) |-> newDue(j)])
        /\ \A j \in 1..(Len(members) - 1) :
              /\ getTotalPaid(NewMember(members'[j])) = getTotalPaid(stay(j))
              /\ getTotalBills(NewMember(members'[j]), members') = newShare(j)

\* C7: a step that deletes a member (in browser-storage mode deleteRecord takes
\* out that one record and nothing else) leaves totalDeposits() and totalDue()
\* without that member's amounts, every remaining member's getTotalPaid() as it
\* was, and every remaining member's share at
\* totalBillAmount * ownMeals / (T - deletedMeals).
C7_DeleteMemberFrame ==
    [][/\ (useLocalStorage /\ Len(members') < Len(members))
             => \E i \in 1..Len(members) : MemberDeleted(i)
       /\ \A i \in 1..Len(members) : MemberDeleted(i) => MemberDeletedEffect(i)]_vars

\* After a member who ate and paid was deleted: their records are still in the
\* store, the deposits are 0 and the member who stayed carries the whole bill.
C7_Witness ==
    /\ Len(members) = 1
    /\ \E k \in 1..Len(payments) : payments[k].member_id \notin MemberIds
    /\ \E k \in 1..Len(mealEntries) :
          mealEntries[k].member_id \notin MemberIds /\ mealEntries[k].meal_count > 0
    /\ totalDeposits = 0
    /\ totalExpense > 0
    /\ getTotalBills(NewMember(members[1]), members) = Num(totalExpense)

\* The date string names the year and month of fm.
InCalendarMonth(dateString, fm) ==
    Len(dateString) = 3 /\ dateString[1] = fm[1] /\ dateString[2] = fm[2]

\* C8: with a month selected, getFilteredData() returns of the bills, payments
\* and meal entries exactly those dated in that calendar month; with none
\* selected, the three full collections.
C8_FilterIsCalendarMonth ==
    LET f == getFilteredData
    IN  IF Truthy(filterMonth)
        THEN /\ f.filteredBills = SelectSeq(bills, LAMBDA b : InCalendarMonth(b.date, filterMonth))
             /\ f.filteredPayments
                    = SelectSeq(payments, LAMBDA p : InCalendarMonth(p.date, filterMonth))
             /\ f.filteredMealEntries
                    = SelectSeq(mealEntries,
                                LAMBDA m : InCalendarMonth(m.meal_date, filterMonth))
        ELSE /\ f.filteredBills = bills
             /\ f.filteredPayments = payments
             /\ f.filteredMealEntries = mealEntries

\* The elements of a sequence.
Range(s) == {s[i] : i \in 1..Len(s)}

\* C9: with a month filter active, no bill, payment or meal entry whose date
\* string cannot be parsed is in the filtered collections (and getFilteredData
\* has a value in every state).
C9_UnparsableDateLeftOut ==
    Truthy(filterMonth) =>
        LET f == getFilteredData
        IN  /\ \A b \in Range(f.filteredBills) : NewDate(b.date).valid
            /\ \A p \in Range(f.filteredPayments) : NewDate(p.date).valid
            /\ \A m \in Range(f.filteredMealEntries) : NewDate(m.meal_date).valid
            /\ Range(f.filteredBills) \subseteq Range(bills)
            /\ Range(f.filteredPayments) \subseteq Range(payments)
            /\ Range(f.filteredMealEntries) \subseteq Range(mealEntries)

\* A filter is active, a bill and a payment without a date are in the store,
\* and neither is in the filtered collections.
C9_Witness ==
    /\ Truthy(filterMonth)
    /\ \E b \in Range(bills) :
          b.date = <<>> /\ b \notin Range(getFilteredData.filteredBills)
    /\ \E p \in Range(payments) :
          p.date = <<>> /\ p \notin Range(getFilteredData.filteredPayments)

\* C10: the store (the records in memory, and those the remote store holds)
\* has at most one meal_entry per (member_id, meal_date) pair.
C10_OneMealEntryPerDay ==
    \A data \in {allData, remoteData} :
        \A i, j \in 1..Len(data) :
            (/\ data[i].type = "meal_entry" /\ data[j].type = "meal_entry"
             /\ data[i].member_id = data[j].member_id
             /\ data[i].meal_date = data[j].meal_date)
                => i = j

\* C11: the record collection allData never holds more than 999 records,
\* whatever sequence of add-member, add-bill, add-payment and meal count updates
\* is run.
C11_AtMost999Records == Len(allData) <= RecordLimit

\* C12: when LocalStorage.save returns false during a createRecord or
\* deleteRecord call, the result the call returns has isOk = false.
C12_SaveFailureReported ==
    \A r \in result : (useLocalStorage /\ ~LocalStorageSaveReturns) => ~r.isOk

\* The records of s, a missing `field` filled in as 0.
Filled(s, field) ==
    [i \in 1..Len(s) |->
       [f \in DOMAIN s[i] \cup {field} |->
          IF f \in DOMAIN s[i] THEN s[i][f] ELSE 0]]

\* The member object of members[i] on the collections with the missing numbers
\* filled in.
FilledMember(i) ==
    Member(members[i], Filled(bills, "amount"), Filled(payments, "amount"),
           Filled(mealEntries, "meal_count"))

\* C13: on records with a missing amount or meal_count every engine operation
\* returns the number it returns when the missing field is 0 (never NaN).
C13_MissingFieldIsZero ==
    /\ \A i \in 1..Len(members) :
          LET m == NewMember(members[i])
              z == FilledMember(i)
          IN  /\ getTotalPaid(m) = getTotalPaid(z)
              /\ getMonthlyMealTotal(m) = getMonthlyMealTotal(z)
              /\ getTotalBills(m, members) = getTotalBills(z, members)
              /\ getTotalDue(m, members) = getTotalDue(z, members)
              /\ SettlementRow(members[i]) =
                    [name          |-> members[i].name,
                     join_date     |-> members[i].join_date,
                     total_paid    |-> getTotalPaid(z),
                     total_bills   |-> getTotalBills(z, members),
                     total_due     |-> getTotalDue(z, members),
                     monthly_meals |-> getMonthlyMealTotal(z)]
    /\ totalExpense = Sum(Amounts(Filled(bills, "amount")))
    /\ totalDeposits = Sum([i \in 1..Len(members) |-> getTotalPaid(FilledMember(i))])
    /\ totalDue = SumNum([i \in 1..Len(members) |-> getTotalDue(FilledMember(i), members)])

\* A step that generates a report.
ReportGenerated == Len(reports') = Len(reports) + 1

DisplayedMonth == <<getFullYear(currentDate, tz), getMonth(currentDate, tz) + 1>>

\* The meals of the member with this id over the entries dated in the displayed
\* month, of all the meal entries.
MealsInDisplayedMonth(id) ==
    Sum(MealCounts(SelectSeq(mealEntries,
          LAMBDA m : m.member_id = id /\ InCalendarMonth(m.meal_date, DisplayedMonth))))

\* C15: a member's monthly meal total is the sum of meal_count over the member's
\* entries dated in the displayed month, whatever the dashboard month filter is:
\* on a member object of the engine and on the member objects of the dashboard
\* members table alike.
C15_MonthlyMealsFollowCursor ==
    \A i \in 1..Len(members) :
        /\ getMonthlyMealTotal(NewMember(members[i])) = MealsInDisplayedMonth(members[i].id)
        /\ getMonthlyMealTotal(dashboardMemberObjects[i])
              = MealsInDisplayedMonth(members[i].id)

\* A step in which a change notification is delivered, and one in which a
\* record is created or deleted in local mode.
Notified == Cardinality(inflight') < Cardinality(inflight)
LocalCreateOrDelete == useLocalStorage /\ Len(allData') # Len(allData)

C17_DeleteMemberKeepsOtherRecords ==
    [][(useLocalStorage /\ Len(members') < Len(members)) =>
          /\ \E a \in 1..Len(allData) :
                /\ allData[a].type = "member"
                /\ allData' = RemoveAt(allData, a)
          /\ bills' = bills
          /\ payments' = payments
          /\ mealEntries' = mealEntries]_vars

\* In browser-storage mode, after the member who has a meal entry and a payment
\* was deleted: both records are in the store.
C17_Witness ==
    /\ useLocalStorage
    /\ \E k \in 1..Len(mealEntries), n \in 1..Len(payments) :
          /\ mealEntries[k].member_id = payments[n].member_id
          /\ mealEntries[k].member_id \notin MemberIds
          /\ mealEntries[k] \in Range(allData)
          /\ payments[n] \in Range(allData)

\* Collections that differ from bs in nothing but the split_type and the
\* participants of one bill, or of every bill.
SplitVariants(bs) ==
    {[bs EXCEPT ![k] = [bs[k] EXCEPT !.split_type = st, !.participants = pa]] :
        k \in 1..Len(bs), st \in SplitTypeValues, pa \in ParticipantsValues}
    \cup {[i \in 1..Len(bs) |-> [bs[i] EXCEPT !.split_type = st, !.participants = pa]] :
        st \in SplitTypeValues, pa \in ParticipantsValues}

\* C18: two stores that differ only in the split_type or participants of their
\* bills give every member the same getTotalBills() and getTotalDue().
C18_SplitTypeNotRead ==
    \A i \in 1..Len(members) :
        LET m     == NewMember(members[i])
            share == getTotalBills(m, members)
            due   == getTotalDue(m, members)
        IN  \A other \in SplitVariants(bills) :
                LET o == Member(members[i], other, payments, mealEntries)
                IN  getTotalBills(o, members) = share /\ getTotalDue(o, members) = due

\* Two bills, meals eaten and a share owed: the stores to compare differ in the
\* split type of either bill.
C18_Witness ==
    /\ Len(bills) = 2
    /\ Cardinality(SplitVariants(bills)) > 1
    /\ \E i \in 1..Len(members) :
          /\ Less(Num(0), getTotalBills(NewMember(members[i]), members))
          /\ Less(Num(0), getTotalDue(NewMember(members[i]), members))

\* C19: whatever is typed into the meal inputs (a negative number, zero, a
\* positive number, a decimal, no number at all), every meal entry of the store
\* has a meal_count that is a non-negative integer.
C19_MealCountsAreNaturals ==
    \A k \in 1..Len(allData) :
        allData[k].type = "meal_entry" =>
            /\ "meal_count" \in DOMAIN allData[k]
            /\ allData[k].meal_count \in Nat

\* A meal entry created for the second member from '30' and the stored entry of
\* the first changed by '20.5'.
C19_Witness ==
    /\ \E k \in 1..Len(mealEntries) :
          mealEntries[k].member_id = 2 /\ mealEntries[k].meal_count = 30
    /\ \E k \in 1..Len(mealEntries) :
          mealEntries[k].member_id = 1 /\ mealEntries[k].meal_count = 20

\* C20: whenever the members' monthly meals add up to more than 0, totalDue() is
\* at least totalExpense() - totalDeposits().
C20_DuesCoverUnpaidExpense ==
    reportTotalMeals > 0 =>
        ~Less(totalDue, Sub(Num(totalExpense), Num(totalDeposits)))

\* Both members have eaten and owe their share, and one payment was made.
C20_Witness ==
    /\ reportTotalMeals > 0
    /\ totalDeposits > 0
    /\ Len(members) >= 2
    /\ \A i \in 1..2 : getMonthlyMealTotal(NewMember(members[i])) > 0
    /\ Less(Num(0), totalDue)

\* C21: in remote mode, while the remote store reports failure, a step leaves
\* every meal entry in memory with the meal_count it had (the failed
\* dataSdk.update of updateMealCountDirect included), and with the month cursor
\* where it was every member's monthly meals, share and due are the same after
\* the step.
C21_FailedUpdateChangesNothing ==
    [][(~useLocalStorage /\ sdkDown) =>
          /\ mealEntries' = mealEntries
          /\ allData' = allData
          /\ (currentDate' = currentDate) =>
                /\ Len(members') = Len(members)
                /\ \A i \in 1..Len(members) :
                      LET before == NewMember(members[i])
                          after  == Member(members'[i], bills', payments', mealEntries')
                      IN  /\ getMonthlyMealTotal(after) = getMonthlyMealTotal(before)
                          /\ getTotalBills(after, members') = getTotalBills(before, members)
                          /\ getTotalDue(after, members') = getTotalDue(before, members)]_vars

\* C22: a click on prev-month (the cursor moves back in time) takes the cursor
\* to the calendar month just before the one it was in, a click on next-month
\* (it moves forward) to the month just after, whatever day of the month the
\* cursor date holds; so prev-month followed by next-month returns to the month
\* it started from.
C22_MonthStepsByOne ==
    [][/\ (currentDate'.t < currentDate.t)
             => MonthIndex(currentDate') = MonthIndex(currentDate) - 1
       /\ (currentDate'.t > currentDate.t)
             => MonthIndex(currentDate') = MonthIndex(currentDate) + 1]_vars

\* What a render of every view would write now.
RenderedNow ==
    RenderAll(members, bills, payments, mealEntries, filterMonth, searchQuery,
              selectedMealDate)

\* C23: once a handler has finished, the monthly meals, bill shares and dues on
\* the page (members table, members list, meal grid, settlement) are the engine's
\* values for the month the cursor is on.
C23_ViewsShowEngineValues ==
    views.followed =>
        /\ views.membersTable = RenderedNow.membersTable
        /\ views.membersList = RenderedNow.membersList
        /\ views.mealsGrid = RenderedNow.mealsGrid
        /\ views.settlement = RenderedNow.settlement

\* C24: whatever the search box holds, each row of the dashboard members table
\* shows the name, the phone and the delete button of the member whose paid,
\* bills, due and monthly-meal figures the row shows.
C24_RowShowsOneMember ==
    views.followed =>
        \A i \in 1..Len(views.membersTable) :
            LET row == views.membersTable[i]
            IN  \E k \in 1..Len(members) :
                    /\ members[k].id = row.object
                    /\ members[k].name = row.name
                    /\ members[k].backendId = row.deleteMember
                    /\ row.phone = IF TruthyString(members[k].phone)
                                   THEN members[k].phone ELSE <<"N", "/", "A">>

====
